---- MODULE Spec2Model ----
(***************************************************************************)
(* Model of app.py, a Streamlit dashboard script.  One script run is the   *)
(* sequence load_data -> empty guard -> sidebar widgets -> df_filtered ->  *)
(* tabs -> tab 1 KPIs -> tab 2 age groups -> remaining tabs.  A widget     *)
(* interaction or a browser refresh starts the next run; the st.cache_data *)
(* cache survives between runs.                                            *)
(*                                                                         *)
(* Numbers are fixed-point: a numeric cell holds twice its value, so 41    *)
(* stands for 20.5 and int() is truncation toward zero of the half count.  *)
(* Column names are sequences of one-character strings so that strip()     *)
(* and replace(" ", "") are computed character by character.               *)
(***************************************************************************)
EXTENDS Integers, Sequences, FiniteSets, TLC

\* ------------------------------------------------------------------ bounds
\* rows in the workbook
MaxRows == 2
\* headers of the workbook that are not written exactly as the script reads them
MaxOdd == 2
\* sidebar widgets the user moves away from their defaults during the session
MaxMoved == 1

\* ------------------------------------------------------------------ cells
Num(v) == [k |-> "num", v |-> v]
Str(n) == [k |-> "str", v |-> n]
NaN == [k |-> "nan", v |-> 0]
Text == [k |-> "text", v |-> 0]

Whole(n) == n + n

\* int(x) of a Python float: truncation toward zero
PyInt(h) == IF h >= 0 THEN h \div 2 ELSE -((-h) \div 2)

\* ------------------------------------------------------------------ names
Fields ==
  <<"Location", "ProductVariant", "Channel", "Gender", "PaymentType",
    "Age", "FeedbackScore", "UnitPurchased", "TotalSaleValue">>

CategoricalFields == <<"Location", "ProductVariant", "Channel", "Gender", "PaymentType">>

RangeFields == <<"Age", "FeedbackScore", "UnitPurchased">>

Widgets == CategoricalFields \o RangeFields

\* the string literals the script indexes the frame with
Chars(f) ==
  CASE f = "Location" -> <<"L","o","c","a","t","i","o","n">>
    [] f = "ProductVariant" -> <<"P","r","o","d","u","c","t","V","a","r","i","a","n","t">>
    [] f = "Channel" -> <<"C","h","a","n","n","e","l">>
    [] f = "Gender" -> <<"G","e","n","d","e","r">>
    [] f = "PaymentType" -> <<"P","a","y","m","e","n","t","T","y","p","e">>
    [] f = "Age" -> <<"A","g","e">>
    [] f = "FeedbackScore" -> <<"F","e","e","d","b","a","c","k","S","c","o","r","e">>
    [] f = "UnitPurchased" -> <<"U","n","i","t","P","u","r","c","h","a","s","e","d">>
    [] f = "TotalSaleValue" -> <<"T","o","t","a","l","S","a","l","e","V","a","l","u","e">>
    [] f = "AgeGroup" -> <<"A","g","e","G","r","o","u","p">>

LowerAlpha ==
  <<"a","b","c","d","e","f","g","h","i","j","k","l","m",
    "n","o","p","q","r","s","t","u","v","w","x","y","z">>

UpperAlpha ==
  <<"A","B","C","D","E","F","G","H","I","J","K","L","M",
    "N","O","P","Q","R","S","T","U","V","W","X","Y","Z">>

IsUpper(c) == \E i \in DOMAIN UpperAlpha : UpperAlpha[i] = c

IsLower(c) == \E i \in DOMAIN LowerAlpha : LowerAlpha[i] = c

ToLower(c) ==
  IF IsUpper(c) THEN LowerAlpha[CHOOSE i \in DOMAIN UpperAlpha : UpperAlpha[i] = c] ELSE c

ToUpper(c) ==
  IF IsLower(c) THEN UpperAlpha[CHOOSE i \in DOMAIN LowerAlpha : LowerAlpha[i] = c] ELSE c

\* ------------------------------------------------------------------ load_data
\* the characters str.strip() removes from both ends
Whitespace == {" ", "\t", "\n", "\r"}

RECURSIVE LStrip(_)
LStrip(s) ==
  IF s = <<>> THEN <<>>
  ELSE IF Head(s) \in Whitespace THEN LStrip(Tail(s)) ELSE s

RECURSIVE RStrip(_)
RStrip(s) ==
  IF s = <<>> THEN <<>>
  ELSE IF s[Len(s)] \in Whitespace THEN RStrip(SubSeq(s, 1, Len(s) - 1)) ELSE s

\* c.strip()
Strip(s) == RStrip(LStrip(s))

IsNotSpace(c) == c # " "

\* s.replace(" ", "")
RemoveSpaces(s) == SelectSeq(s, IsNotSpace)

\* [c.strip().replace(" ", "") for c in df.columns], one header
NormalizeHeader(c) == RemoveSpaces(Strip(c))

\* pd.read_excel / df.columns assignment work on a frame: column labels, row
\* labels and positional cells
NoTable == [made |-> FALSE, columns |-> <<>>, index |-> <<>>, data |-> <<>>]

NoFile == [exists |-> FALSE, headers |-> <<>>, rows |-> <<>>]

\* pd.read_excel(...): one column per header cell, one row per sheet row
ReadExcel(wb) ==
  [made |-> TRUE,
   columns |-> [i \in DOMAIN wb.headers |-> wb.headers[i].raw],
   index |-> [r \in DOMAIN wb.rows |-> r],
   data |-> [r \in DOMAIN wb.rows |->
               [i \in DOMAIN wb.headers |-> wb.rows[r][wb.headers[i].field]]]]

\* load_data body once the workbook is read: only the labels change
StandardizeColumns(t) ==
  [t EXCEPT !.columns = [i \in DOMAIN t.columns |-> NormalizeHeader(t.columns[i])]]

LoadData(wb) == StandardizeColumns(ReadExcel(wb))

\* ------------------------------------------------------------------ workbooks
RECURSIVE InsertBeforeUpper(_, _, _)
InsertBeforeUpper(s, sep, first) ==
  IF s = <<>> THEN <<>>
  ELSE (IF IsUpper(Head(s)) /\ ~first THEN <<sep, Head(s)>> ELSE <<Head(s)>>)
         \o InsertBeforeUpper(Tail(s), sep, FALSE)

\* the ways a sheet may spell the header of a column
Styled(f, style) ==
  CASE style = "exact" -> Chars(f)
    [] style = "spaced" -> <<" ">> \o InsertBeforeUpper(Chars(f), " ", TRUE) \o <<" ">>
    [] style = "hyphen" ->
         LET h == InsertBeforeUpper(Chars(f), "-", TRUE) IN [i \in DOMAIN h |-> ToLower(h[i])]
    [] style = "upper" -> [i \in DOMAIN Chars(f) |-> ToUpper(Chars(f)[i])]
    [] style = "absent" -> <<>>

OddStyles == {"spaced", "hyphen", "upper", "absent"}

FieldSet == {Fields[i] : i \in DOMAIN Fields}

OddSets == {S \in SUBSET FieldSet : Cardinality(S) <= MaxOdd}

\* an additional column of the sheet, spelled differently from the others
Extras ==
  {[field |-> "none", style |-> "absent"]} \cup
  {[field |-> f, style |-> s] : f \in {"TotalSaleValue", "Location"}, s \in {"spaced", "hyphen"}}

IsPresent(h) == h.raw # <<>>

HeaderSeq(odd, extra) ==
  LET styleOf(f) == IF f \in DOMAIN odd THEN odd[f] ELSE "exact"
      all == [i \in DOMAIN Fields |-> [field |-> Fields[i], raw |-> Styled(Fields[i], styleOf(Fields[i]))]]
      main == SelectSeq(all, IsPresent)
      more == [field |-> extra.field, raw |-> Styled(extra.field, extra.style)]
  IN IF extra.field = "none" \/ (\E i \in DOMAIN main : main[i].raw = more.raw)
     THEN main ELSE Append(main, more)

Row(loc, prod, chan, gen, pay, age, fb, units, tsv) ==
  [Location |-> loc, ProductVariant |-> prod, Channel |-> chan, Gender |-> gen,
   PaymentType |-> pay, Age |-> age, FeedbackScore |-> fb, UnitPurchased |-> units,
   TotalSaleValue |-> tsv]

RowA == Row(Str(1), Str(1), Str(1), Str(1), Str(1), Num(Whole(30)), Num(Whole(2)), Num(Whole(2)), Num(21))

RowB == Row(Str(2), Str(2), Str(2), Str(2), Str(2), Num(41), Num(Whole(5)), Num(Whole(3)), Num(Whole(7)))

\* cells a sheet can hold: blanks (NaN), text in a number column, fractions, ages of 0
\* and above 100, negative scores
RowPool ==
  <<RowA, RowB,
    Row(NaN, Str(1), Str(1), Str(1), Str(1), Num(0), Num(Whole(2)), Num(Whole(2)), Num(Whole(5))),
    Row(Str(1), Str(1), Str(1), Str(1), Str(1), Num(Whole(101)), Num(Whole(2)), Num(Whole(2)), NaN),
    Row(Str(1), Str(1), Str(1), Str(1), Str(1), Num(Whole(30)), Num(9), Num(Whole(2)), Text),
    Row(Str(1), Str(1), Str(1), Str(1), NaN, NaN, Num(-3), NaN, Num(Whole(5))),
    Row(Str(1), Str(1), Str(1), Str(1), Str(1), Text, Num(Whole(2)), Num(Whole(2)), Num(Whole(5)))>>

\* the sheets tried: up to MaxRows rows of the pool, repeats allowed, in pool order
RowTables ==
  UNION {{[r \in 1..n |-> RowPool[pick[r]]] :
            pick \in {q \in [1..n -> DOMAIN RowPool] : \A a, b \in 1..n : a <= b => q[a] <= q[b]}} :
          n \in 0..MaxRows}

NoExtra == [field |-> "none", style |-> "absent"]

\* sheets whose headers are all spelled as the script reads them; the rows vary
RowBooks ==
  {[exists |-> TRUE, headers |-> HeaderSeq(<<>>, NoExtra), rows |-> rows] : rows \in RowTables}

\* sheets with up to MaxOdd headers missing, respelled or doubled; two fixed rows
HeaderBooks ==
  UNION {UNION {{[exists |-> TRUE, headers |-> HeaderSeq(odd, extra), rows |-> <<RowA, RowB>>] :
                   extra \in {e \in Extras : e = NoExtra \/ Cardinality(S) < MaxOdd}} :
                odd \in [S -> OddStyles]} : S \in OddSets}

\* ------------------------------------------------------------------ state
VARIABLES
  workbook,      \* the .xlsx file on disk
  cache,         \* st.cache_data entry of load_data
  pc,            \* position of the current script run
  df,            \* module-level df of the current run
  touched,       \* widgets the user has moved (session state)
  sel,           \* values the sidebar widgets returned
  df_filtered,   \* module-level df_filtered of the current run
  error,         \* the uncaught exception that ended the run
  out,           \* elements rendered by the current run
  kpi,           \* value shown by the "Total Sale Value" metric
  ageChart       \* bars of the "Sale Value by Age Group" chart

vars == <<workbook, cache, pc, df, touched, sel, df_filtered, error, out, kpi, ageChart>>

NoError == [kind |-> "none", names |-> {}, line |-> 0]

Err(kind, names, line) == [kind |-> kind, names |-> names, line |-> line]

NoSel == [w \in {Widgets[i] : i \in DOMAIN Widgets} |-> [set |-> {}, lo |-> 0, hi |-> 0]]

NoKpi == [shown |-> FALSE, total |-> 0]

InitRun ==
  /\ cache = NoTable
  /\ pc = "start"
  /\ df = NoTable
  /\ touched = {}
  /\ sel = NoSel
  /\ df_filtered = NoTable
  /\ error = NoError
  /\ out = {}
  /\ kpi = NoKpi
  /\ ageChart = {}

\* the workbook is missing, or holds any of the row tables under exact headers
Init == workbook \in {NoFile} \cup RowBooks /\ InitRun

\* the workbook holds two rows under any of the header spellings
InitHeaders == workbook \in HeaderBooks /\ InitRun

\* df = load_data() under @st.cache_data: the first call runs the body and stores
\* the result, later calls return a copy of the stored frame
Load ==
  /\ pc = "start"
  /\ IF cache.made
       THEN /\ df' = cache
            /\ pc' = "guard"
            /\ UNCHANGED <<cache, error>>
       ELSE IF ~workbook.exists
         THEN /\ error' = Err("FileNotFoundError", {}, 22)
              /\ pc' = "error"
              /\ UNCHANGED <<cache, df>>
         ELSE /\ cache' = LoadData(workbook)
              /\ df' = LoadData(workbook)
              /\ pc' = "guard"
              /\ UNCHANGED error
  /\ UNCHANGED <<workbook, touched, sel, df_filtered, out, kpi, ageChart>>

\* a guard that only looks at the columns
EmptyColumnsOnly(t) == Len(t.columns) = 0

\* DataFrame.empty: any axis of length 0
Empty(t) == Len(t.columns) = 0 \/ Len(t.data) = 0

\* if df.empty: st.warning(...); st.stop()
Guard ==
  /\ pc = "guard"
  /\ IF Empty(df)
       THEN out' = out \cup {"warning"} /\ pc' = "stopped"
       ELSE out' = out /\ pc' = "sidebar"
  /\ UNCHANGED <<workbook, cache, df, touched, sel, df_filtered, error, kpi, ageChart>>

\* ------------------------------------------------------------------ frame access
\* df[name]: the positions whose label is name
Positions(t, f) == {i \in DOMAIN t.columns : t.columns[i] = Chars(f)}

\* df[name] when exactly one column carries the label: a Series
Series(t, f) ==
  LET i == CHOOSE j \in Positions(t, f) : TRUE
  IN [r \in DOMAIN t.data |-> t.data[r][i]]

Values(s) == {s[r] : r \in DOMAIN s}

\* Series.unique(): NaN is one of the values
Unique(s) == Values(s)

Numbers(s) == {c.v : c \in {x \in Values(s) : x.k = "num"}}

\* Series.min() / Series.max() skip NaN
SeriesMin(s) == CHOOSE m \in Numbers(s) : \A n \in Numbers(s) : m <= n

SeriesMax(s) == CHOOSE m \in Numbers(s) : \A n \in Numbers(s) : m >= n

IndexOf(seq, x) == CHOOSE i \in DOMAIN seq : seq[i] = x

\* ------------------------------------------------------------------ sidebar
\* source line of the widget of a column (lines 34-41)
WidgetLine(f) == 33 + IndexOf(Widgets, f)

IsCategorical(f) == \E i \in DOMAIN CategoricalFields : CategoricalFields[i] = f

\* the exception, if any, raised while the widget of column f is built.
\* strict: this Streamlit build rejects a slider whose min_value equals max_value
WidgetError(t, f, strict) ==
  IF Positions(t, f) = {} THEN Err("KeyError", {f}, WidgetLine(f))
  ELSE IF Cardinality(Positions(t, f)) > 1
    THEN \* df[name] is a DataFrame: no .unique(); int(DataFrame.min()) fails
         Err(IF IsCategorical(f) THEN "AttributeError" ELSE "TypeError", {f}, WidgetLine(f))
  ELSE IF IsCategorical(f) THEN NoError
  ELSE IF Text \in Values(Series(t, f)) THEN Err("TypeError", {f}, WidgetLine(f))
  ELSE IF Numbers(Series(t, f)) = {} THEN Err("ValueError", {f}, WidgetLine(f))
  ELSE IF strict /\ PyInt(SeriesMin(Series(t, f))) = PyInt(SeriesMax(Series(t, f)))
    THEN Err("StreamlitAPIException", {f}, WidgetLine(f))
  ELSE NoError

\* lines 34-41 run top to bottom: the first failing widget ends the run
RECURSIVE FirstError(_, _, _)
FirstError(t, i, strict) ==
  IF i > Len(Widgets) THEN NoError
  ELSE IF WidgetError(t, Widgets[i], strict).kind # "none" THEN WidgetError(t, Widgets[i], strict)
  ELSE FirstError(t, i + 1, strict)

SidebarError(t, strict) == FirstError(t, 1, strict)

\* the slider's upper default taken from min() as well
DefaultValueMinTwice(t, f) ==
  IF IsCategorical(f)
    THEN [set |-> Unique(Series(t, f)), lo |-> 0, hi |-> 0]
    ELSE [set |-> {}, lo |-> PyInt(SeriesMin(Series(t, f))), hi |-> PyInt(SeriesMin(Series(t, f)))]

\* default=list(df[c].unique()) and (int(df[c].min()), int(df[c].max()))
DefaultValue(t, f) ==
  IF IsCategorical(f)
    THEN [set |-> Unique(Series(t, f)), lo |-> 0, hi |-> 0]
    ELSE [set |-> {}, lo |-> PyInt(SeriesMin(Series(t, f))), hi |-> PyInt(SeriesMax(Series(t, f)))]

WidgetSet == {Widgets[i] : i \in DOMAIN Widgets}

\* a widget the user never moved returns its default, a moved one its stored value
WidgetValues(t, moved, stored) ==
  [w \in WidgetSet |-> IF w \in moved THEN stored[w] ELSE DefaultValue(t, w)]

Sidebar ==
  /\ pc = "sidebar"
  /\ \E strict \in BOOLEAN :
       IF SidebarError(df, strict).kind # "none"
         THEN /\ error' = SidebarError(df, strict)
              /\ pc' = "error"
              /\ UNCHANGED <<sel, out>>
         ELSE /\ sel' = WidgetValues(df, touched, sel)
              /\ out' = out \cup {"sidebar"}
              /\ pc' = "filter"
              /\ UNCHANGED error
  /\ UNCHANGED <<workbook, cache, df, touched, df_filtered, kpi, ageChart>>

\* ------------------------------------------------------------------ df_filtered
\* Series.isin(values): NaN matches NaN
Isin(c, values) == c \in values

\* a range test that leaves out the upper end
BetweenRightOpen(c, lo, hi) == c.k = "num" /\ Whole(lo) <= c.v /\ c.v < Whole(hi)

\* Series.between(lo, hi), inclusive="both"; NaN compares False
Between(c, lo, hi) == c.k = "num" /\ Whole(lo) <= c.v /\ c.v <= Whole(hi)

\* the boolean mask of lines 44-51, at row r
Mask(t, s, r) ==
  /\ Isin(Series(t, "Location")[r], s["Location"].set)
  /\ Isin(Series(t, "ProductVariant")[r], s["ProductVariant"].set)
  /\ Isin(Series(t, "Channel")[r], s["Channel"].set)
  /\ Isin(Series(t, "Gender")[r], s["Gender"].set)
  /\ Isin(Series(t, "PaymentType")[r], s["PaymentType"].set)
  /\ Between(Series(t, "Age")[r], s["Age"].lo, s["Age"].hi)
  /\ Between(Series(t, "FeedbackScore")[r], s["FeedbackScore"].lo, s["FeedbackScore"].hi)
  /\ Between(Series(t, "UnitPurchased")[r], s["UnitPurchased"].lo, s["UnitPurchased"].hi)

RECURSIVE Kept(_, _, _)
Kept(t, s, r) ==
  IF r > Len(t.data) THEN <<>>
  ELSE (IF Mask(t, s, r) THEN <<r>> ELSE <<>>) \o Kept(t, s, r + 1)

\* df[mask]: a new frame holding the selected rows under their labels
BoolIndex(t, s) ==
  LET keep == Kept(t, s, 1)
  IN [made |-> TRUE,
      columns |-> t.columns,
      index |-> [k \in DOMAIN keep |-> t.index[keep[k]]],
      data |-> [k \in DOMAIN keep |-> t.data[keep[k]]]]

Filter ==
  /\ pc = "filter"
  /\ df_filtered' = BoolIndex(df, sel)
  /\ pc' = "tabs"
  /\ UNCHANGED <<workbook, cache, df, touched, sel, error, out, kpi, ageChart>>

\* st.tabs([...]) of lines 55-62
Tabs ==
  /\ pc = "tabs"
  /\ out' = out \cup {"tabs"}
  /\ pc' = "tab1"
  /\ UNCHANGED <<workbook, cache, df, touched, sel, df_filtered, error, kpi, ageChart>>

\* ------------------------------------------------------------------ tab 1
RECURSIVE SumNumbers(_)
\* Series.sum(): NaN cells are skipped
SumNumbers(s) ==
  IF s = <<>> THEN 0
  ELSE (IF Head(s).k = "num" THEN Head(s).v ELSE 0) + SumNumbers(Tail(s))

\* the exception, if any, of f"${df_filtered['TotalSaleValue'].sum():,.2f}" (line 70)
KpiError(t) ==
  IF Positions(t, "TotalSaleValue") = {} THEN Err("KeyError", {"TotalSaleValue"}, 70)
  ELSE IF Cardinality(Positions(t, "TotalSaleValue")) > 1
    THEN Err("TypeError", {"TotalSaleValue"}, 70)
  ELSE IF Text \in Values(Series(t, "TotalSaleValue"))
    THEN Err(IF Values(Series(t, "TotalSaleValue")) = {Text} THEN "ValueError" ELSE "TypeError",
             {"TotalSaleValue"}, 70)
  ELSE NoError

\* with tab1: lines 65-86
Tab1 ==
  /\ pc = "tab1"
  /\ IF KpiError(df_filtered).kind # "none"
       THEN /\ error' = KpiError(df_filtered)
            /\ pc' = "error"
            /\ UNCHANGED <<kpi, out>>
       ELSE /\ kpi' = [shown |-> TRUE, total |-> SumNumbers(Series(df_filtered, "TotalSaleValue"))]
            /\ out' = out \cup {"kpi", "tab1charts"}
            /\ pc' = "tab2"
            /\ UNCHANGED error
  /\ UNCHANGED <<workbook, cache, df, touched, sel, df_filtered, ageChart>>

\* ------------------------------------------------------------------ tab 2
\* bins=[0,20,30,40,50,60,100] of line 94
Bins == <<0, 20, 30, 40, 50, 60, 100>>

\* labels=['<=20','21-30','31-40','41-50','51-60','60+'], by position
Label(i) == [k |-> "label", v |-> i]

\* pd.cut(x, bins, labels): right-closed intervals, the lowest edge excluded;
\* a value in no interval, or NaN, gets NaN
Cut(c) ==
  IF c.k = "num" /\ \E i \in 1..(Len(Bins) - 1) : Whole(Bins[i]) < c.v /\ c.v <= Whole(Bins[i + 1])
    THEN Label(CHOOSE i \in 1..(Len(Bins) - 1) : Whole(Bins[i]) < c.v /\ c.v <= Whole(Bins[i + 1]))
    ELSE NaN

\* frame[name] = cells: replaces the column, or appends it
SetColumn(t, f, cells) ==
  IF Positions(t, f) # {}
    THEN [t EXCEPT !.data = [r \in DOMAIN t.data |->
                               [i \in DOMAIN t.columns |->
                                  IF i \in Positions(t, f) THEN cells[r] ELSE t.data[r][i]]]]
    ELSE [t EXCEPT !.columns = Append(t.columns, Chars(f)),
                   !.data = [r \in DOMAIN t.data |-> Append(t.data[r], cells[r])]]

\* a Series assigned to a frame is aligned on the row labels; labels it lacks get NaN
Aligned(t, from, cells) ==
  [r \in DOMAIN t.index |->
     IF \E k \in DOMAIN from.index : from.index[k] = t.index[r]
       THEN cells[CHOOSE k \in DOMAIN from.index : from.index[k] = t.index[r]]
       ELSE NaN]

\* the assignment written on the base frame instead of the filtered one
AssignAgeGroupInPlace(base, filtered) ==
  LET bins == [r \in DOMAIN filtered.data |-> Cut(Series(filtered, "Age")[r])]
  IN [df |-> SetColumn(base, "AgeGroup", Aligned(base, filtered, bins)),
      df_filtered |-> SetColumn(filtered, "AgeGroup", bins)]

\* lines 94-95: age_bins = pd.cut(df_filtered['Age'], ...); df_filtered['AgeGroup'] = age_bins
AssignAgeGroup(base, filtered) ==
  LET bins == [r \in DOMAIN filtered.data |-> Cut(Series(filtered, "Age")[r])]
  IN [df |-> base, df_filtered |-> SetColumn(filtered, "AgeGroup", bins)]

RECURSIVE GroupSum(_, _, _, _)
GroupSum(keys, cells, g, r) ==
  IF r > Len(keys) THEN 0
  ELSE (IF keys[r] = g /\ cells[r].k = "num" THEN cells[r].v ELSE 0) + GroupSum(keys, cells, g, r + 1)

\* df_filtered.groupby('AgeGroup', observed=True)['TotalSaleValue'].sum(): one bar per
\* label that occurs; rows whose key is NaN belong to no group
GroupByAgeGroup(t) ==
  {[group |-> g, total |-> GroupSum(Series(t, "AgeGroup"), Series(t, "TotalSaleValue"), g, 1)] :
     g \in Values(Series(t, "AgeGroup")) \ {NaN}}

\* with tab2: lines 89-113
Tab2 ==
  /\ pc = "tab2"
  /\ df' = AssignAgeGroup(df, df_filtered).df
  /\ df_filtered' = AssignAgeGroup(df, df_filtered).df_filtered
  /\ ageChart' = GroupByAgeGroup(AssignAgeGroup(df, df_filtered).df_filtered)
  /\ out' = out \cup {"agechart", "tab2charts"}
  /\ pc' = "rest"
  /\ UNCHANGED <<workbook, cache, touched, sel, error, kpi>>

\* tabs 3-6 and the footer, lines 116-216: plotting calls over df_filtered.  Whether
\* plotly accepts the empty pivot of an empty df_filtered depends on the build.
Rest ==
  /\ pc = "rest"
  /\ \/ /\ out' = out \cup {"tab3", "tab4", "tab5", "tab6", "footer"}
        /\ pc' = "done"
        /\ UNCHANGED error
     \/ /\ Len(df_filtered.data) = 0
        /\ error' = Err("ValueError", {}, 133)
        /\ pc' = "error"
        /\ UNCHANGED out
  /\ UNCHANGED <<workbook, cache, df, touched, sel, df_filtered, kpi, ageChart>>

\* ------------------------------------------------------------------ reruns
Ended == pc \in {"done", "error", "stopped"}

\* slider positions tried by the user: the whole-number parts of the column's values
SliderStops(t, f) == {PyInt(v) : v \in Numbers(Series(t, f))}

\* the values a widget can be moved to
Choices(t, f) ==
  IF IsCategorical(f)
    THEN {[set |-> S, lo |-> 0, hi |-> 0] : S \in SUBSET Unique(Series(t, f))}
    ELSE {[set |-> {}, lo |-> p[1], hi |-> p[2]] :
            p \in {q \in SliderStops(t, f) \X SliderStops(t, f) : q[1] <= q[2]}}

\* every rerun executes the script from the top with fresh module globals
StartRun ==
  /\ pc' = "start"
  /\ df' = NoTable
  /\ df_filtered' = NoTable
  /\ error' = NoError
  /\ out' = {}
  /\ kpi' = NoKpi
  /\ ageChart' = {}
  /\ UNCHANGED <<workbook, cache>>

\* the browser reloads the page: same session, same widget values
Refresh ==
  /\ Ended
  /\ StartRun
  /\ UNCHANGED <<touched, sel>>

\* the user moves one sidebar widget; Streamlit stores the value and reruns
Interact ==
  /\ Ended
  /\ "sidebar" \in out
  /\ \E w \in WidgetSet : \E v \in Choices(df, w) :
       /\ Cardinality(touched \cup {w}) <= MaxMoved
       /\ v # sel[w]
       /\ sel' = [sel EXCEPT ![w] = v]
       /\ touched' = touched \cup {w}
  /\ StartRun

Next ==
  \/ Load
  \/ Guard
  \/ Sidebar
  \/ Filter
  \/ Tabs
  \/ Tab1
  \/ Tab2
  \/ Rest
  \/ Refresh
  \/ Interact

Spec == Init /\ [][Next]_vars

SpecHeaders == InitHeaders /\ [][Next]_vars

\* ------------------------------------------------------------------ properties
NumericFields == {"Age", "UnitPurchased", "FeedbackScore", "TotalSaleValue"}

\* the columns the dashboard reads that the frame lacks
MissingFields(t) == {f \in FieldSet : Positions(t, f) = {}}

IsAlnum(c) == IsLower(c) \/ c \in {"0", "1", "2", "3", "4", "5", "6", "7", "8", "9", "_"}

\* the key under which two headers count as the same header: lower case, with every
\* character outside [0-9a-z_] dropped
Slug(h) == SelectSeq([i \in DOMAIN h |-> ToLower(h[i])], IsAlnum)

\* C1: a header of the sheet that differs from a name the script reads only in case,
\* whitespace, hyphens or punctuation is stored by load_data under that name.
C1_SameSlugSameColumn ==
  cache.made =>
    \A i \in DOMAIN workbook.headers : \A f \in FieldSet :
      Slug(workbook.headers[i].raw) = Slug(Chars(f)) => cache.columns[i] = NormalizeHeader(Chars(f))

\* C2: when a required column is absent from the normalized headers of a table that
\* has rows, the run halts before df_filtered is built and before any tab, metric or
\* chart is produced, and the KeyError that ends it names an absent column.
C2_MissingHaltsBeforeFilter ==
  (df.made /\ ~Empty(df) /\ MissingFields(df) # {}) =>
    /\ ~df_filtered.made
    /\ out \cap {"tabs", "kpi", "tab1charts", "agechart"} = {}
    /\ pc # "done"
    /\ (pc = "error" /\ error.kind = "KeyError") => error.names \subseteq MissingFields(df)

\* C3: when two or more required columns are absent, the KeyError that ends the run
\* names all of them.
C3_AllMissingNamed ==
  (df.made /\ Cardinality(MissingFields(df)) >= 2 /\ pc = "error" /\ error.kind = "KeyError") =>
    error.names = MissingFields(df)

\* C4: the frame load_data returned, and the cached frame, stay equal to the loaded
\* sheet through every run, and each run's filter result is the one computed from the
\* loaded sheet and that run's selections.
C4_BaseTableUnchanged ==
  /\ cache.made => cache = LoadData(workbook)
  /\ df.made => df = LoadData(workbook)
  /\ (df_filtered.made /\ pc \in {"tabs", "tab1", "tab2"}) =>
        df_filtered = BoolIndex(LoadData(workbook), sel)

\* a later run, after a widget was moved, that dropped a row and added AgeGroup
C4_Witness ==
  /\ pc = "done"
  /\ touched # {}
  /\ Positions(df_filtered, "AgeGroup") # {}
  /\ Len(df_filtered.data) >= 1
  /\ Len(df_filtered.data) < Len(df.data)

\* C5: every cell of Age, UnitPurchased, FeedbackScore and TotalSaleValue in df_filtered
\* is a number (no blank, no text).
C5_FilteredNumeric ==
  df_filtered.made =>
    \A f \in NumericFields : \A c \in Values(Series(df_filtered, f)) : c.k = "num"

\* C6: the loaded frame never carries the same column name twice, so each name the
\* script reads refers to at most one column.
C6_NoDuplicateColumns ==
  cache.made =>
    /\ \A f \in FieldSet : Cardinality(Positions(cache, f)) <= 1
    /\ \A i, j \in DOMAIN cache.columns : cache.columns[i] = cache.columns[j] => i = j

\* C7: with a sheet of no rows the run only issues the warning and stops: no error,
\* no widget value read from a column, no df_filtered, nothing else rendered.
C7_EmptyWarnsAndStops ==
  (df.made /\ Len(df.data) = 0) =>
    /\ pc \in {"guard", "stopped"}
    /\ error = NoError
    /\ sel = NoSel
    /\ ~df_filtered.made
    /\ ~kpi.shown
    /\ out = IF pc = "stopped" THEN {"warning"} ELSE {}

\* a run, served from the cache, that stopped on the warning
C7_Witness ==
  /\ pc = "stopped"
  /\ "warning" \in out
  /\ cache.made
  /\ Len(df.data) = 0

Cell(t, r, f) == Series(t, f)[r]

\* the eight conditions of the claim, stated on the cells of row r of the base frame
Satisfies(r) ==
  /\ \A f \in {"Location", "ProductVariant", "Channel", "Gender", "PaymentType"} :
       Cell(df, r, f) \in sel[f].set
  /\ \A f \in {"Age", "FeedbackScore", "UnitPurchased"} :
       /\ Cell(df, r, f).k = "num"
       /\ Cell(df, r, f).v >= Whole(sel[f].lo)
       /\ Cell(df, r, f).v <= Whole(sel[f].hi)

\* C8: df_filtered holds exactly the rows of the base frame that meet all eight
\* conditions, in their original order, with their cells unchanged.
C8_ExactlyTheSelectedRows ==
  df_filtered.made =>
    /\ \A k \in DOMAIN df_filtered.index :
         /\ df_filtered.index[k] \in DOMAIN df.data
         /\ Satisfies(df_filtered.index[k])
         /\ SubSeq(df_filtered.data[k], 1, Len(df.columns)) = df.data[df_filtered.index[k]]
    /\ \A k, m \in DOMAIN df_filtered.index : k < m => df_filtered.index[k] < df_filtered.index[m]
    /\ \A r \in DOMAIN df.data :
         Satisfies(r) => \E k \in DOMAIN df_filtered.index : df_filtered.index[k] = r
    /\ Len(df_filtered.data) = Len(df_filtered.index)

\* a moved widget kept some rows and dropped others
C8_Witness ==
  /\ df_filtered.made
  /\ touched # {}
  /\ Len(df_filtered.data) >= 1
  /\ Len(df_filtered.data) < Len(df.data)

Kept_(r) == \E k \in DOMAIN df_filtered.index : df_filtered.index[k] = r

WholeCell(c) == c.k = "num" /\ c.v % 2 = 0

\* C9 as claimed: with every widget at its default, every row of the loaded table is
\* in df_filtered.
C9_DefaultIsIdentity ==
  (df_filtered.made /\ touched = {}) => df_filtered.index = df.index

\* the cell lies between the whole-number parts of its column's minimum and maximum
InTruncatedRange(r, f) ==
  /\ Cell(df, r, f).k = "num"
  /\ Cell(df, r, f).v >= Whole(PyInt(SeriesMin(Series(df, f))))
  /\ Cell(df, r, f).v <= Whole(PyInt(SeriesMax(Series(df, f))))

\* C9 as amended: with every widget at its default, df_filtered holds exactly the rows
\* whose Age, FeedbackScore and UnitPurchased cells are present and lie between int(min)
\* and int(max) of their column: every row with whole numbers in those three cells is
\* kept, whatever its other cells, and a row with a blank in one of them is left out.
C9_DefaultKeepsWholeRows ==
  (df_filtered.made /\ touched = {}) =>
    \A r \in DOMAIN df.data :
      /\ Kept_(r) <=> \A f \in {"Age", "FeedbackScore", "UnitPurchased"} : InTruncatedRange(r, f)
      /\ (\A f \in {"Age", "FeedbackScore", "UnitPurchased"} : WholeCell(Cell(df, r, f))) => Kept_(r)
      /\ (\E f \in {"Age", "FeedbackScore", "UnitPurchased"} : Cell(df, r, f) = NaN) => ~Kept_(r)

\* defaults that keep a row with a blank Location and drop a row with a fraction
C9_Witness ==
  /\ df_filtered.made
  /\ touched = {}
  /\ \E r \in DOMAIN df.data : Kept_(r) /\ Cell(df, r, "Location") = NaN
  /\ \E r \in DOMAIN df.data :
       /\ ~Kept_(r)
       /\ \A f \in {"Age", "FeedbackScore", "UnitPurchased"} : Cell(df, r, f).k = "num"

RECURSIVE SumTotals(_)
SumTotals(bars) ==
  IF bars = {} THEN 0
  ELSE LET b == CHOOSE x \in bars : TRUE IN b.total + SumTotals(bars \ {b})

\* C10: every row of df_filtered gets one of the six labels, and the bars of the age
\* group chart add up to the Total Sale Value metric.
C10_GroupsSumToKpi ==
  pc \in {"rest", "done"} =>
    /\ \A c \in Values(Series(df_filtered, "AgeGroup")) : c.k = "label"
    /\ SumTotals(ageChart) = kpi.total

====
